---- MODULE Spec2Model ----
(***************************************************************************)
(* Model of excelPython/importExcel.py: the Column type-and-format          *)
(* inference engine (Column.processValue, Column.fixUpRawValues and the    *)
(* helpers they call) driven by the row loops of readExcelFile and         *)
(* readCSVFile.                                                            *)
(*                                                                         *)
(* Cell values.  A cell is None, a native number, or a string.  A string   *)
(* is kept as the list of its words (what value.split(' ') returns); a     *)
(* word is either a text token or a run of digit groups joined by          *)
(* separator characters.  A digit group is [n |-> value, w |-> number of   *)
(* digits], so "2023-04-15" is the word with groups <<2023/4, 4/2, 15/2>>  *)
(* and separators <<"-", "-">>.  Every regular expression, int(), split()  *)
(* and strptime() of the source is computed on this structure.             *)
(*                                                                         *)
(* Python exceptions are results: every method is an operator returning    *)
(* the object's fields after the call together with err, the name of the   *)
(* exception the call ended with ("none" when it returned).                *)
(***************************************************************************)
EXTENDS Integers, Sequences, FiniteSets, TLC

VARIABLES cols, inputs, err, done, POTENTIAL_DATE_FORMATS

vars == <<cols, inputs, err, done, POTENTIAL_DATE_FORMATS>>

(***************************************************************************)
(* Program constants.                                                      *)
(***************************************************************************)
FORCE_FORMAT == 50

INTEGER == "integer"
FLOAT == "float"
VARCHAR == "varchar"
DATE == "date"
TIME == "time"
DATETIME == "datetime"

\* Python's None for dataType and conversionFunction (both hold strings).
NoneType == "None"

\* The module-level list as the import statement leaves it.
INITIAL_DATE_FORMATS == <<"%d", "%m", "%y", "%Y">>

(***************************************************************************)
(* Cell values.                                                            *)
(***************************************************************************)
None == [kind |-> "none"]

G(n, w) == [n |-> n, w |-> w]

\* A word made of digit groups c joined by the separators s.
W(c, s) == [c |-> c, s |-> s, txt |-> ""]

\* A word that is a text token (no digits, no separators).
T(txt) == [c |-> <<>>, s |-> <<>>, txt |-> txt]

\* A str value; pad tells whether it carries surrounding whitespace.
Str(words) == [kind |-> "str", pad |-> FALSE, words |-> words]

Padded(words) == [kind |-> "str", pad |-> TRUE, words |-> words]

\* A native number n + frac/10; isFloat tells a float from an int.
Num(n, frac, isFloat) == [kind |-> "num", n |-> n, frac |-> frac, isFloat |-> isFloat]

IsWordText(w) == Len(w.c) = 0

\* str.lower() on the text tokens the model uses.
Lower(t) ==
    CASE t = "None" -> "none"
      [] t = "NONE" -> "none"
      [] t = "NULL" -> "null"
      [] t = "Null" -> "null"
      [] t = "NA" -> "na"
      [] t = "Na" -> "na"
      [] t = "PM" -> "pm"
      [] t = "AM" -> "am"
      [] OTHER -> t

\* len() of a text token.
TextLen(t) ==
    CASE t = "" -> 0
      [] Lower(t) \in {"pm", "am", "na"} -> 2
      [] Lower(t) = "abc" -> 3
      [] Lower(t) \in {"none", "null"} -> 4
      [] OTHER -> 5

RECURSIVE SumWidths(_)
SumWidths(c) == IF c = <<>> THEN 0 ELSE Head(c).w + SumWidths(Tail(c))

WordLen(w) == IF IsWordText(w) THEN TextLen(w.txt) ELSE SumWidths(w.c) + Len(w.s)

RECURSIVE SumWordLens(_)
SumWordLens(ws) == IF ws = <<>> THEN 0 ELSE WordLen(Head(ws)) + SumWordLens(Tail(ws))

\* len() of a stripped str value: its words and the single spaces between them.
StrLen(v) == SumWordLens(v.words) + (Len(v.words) - 1)

Max(a, b) == IF a >= b THEN a ELSE b

RECURSIVE Pow10(_)
Pow10(k) == IF k <= 0 THEN 1 ELSE 10 * Pow10(k - 1)

\* int(x) of a str succeeds exactly on one word that is one digit group.
IsIntLiteral(v) ==
    /\ v.kind = "str"
    /\ Len(v.words) = 1
    /\ Len(v.words[1].c) = 1

\* float(x) of a str also accepts one word "a.b".
IsFloatLiteral(v) ==
    /\ v.kind = "str"
    /\ Len(v.words) = 1
    /\ \/ Len(v.words[1].c) = 1
       \/ Len(v.words[1].c) = 2 /\ v.words[1].s = <<".">>

(***************************************************************************)
(* Regular expressions of the module, searched in the raw string.          *)
(***************************************************************************)
\* '[0-2][0-9]:[0-5][0-9]': two digits ending a group, ':', two digits
\* starting the next group.
TIME_MATCHER(w) ==
    \E i \in 1..Len(w.s) :
        /\ w.s[i] = ":"
        /\ w.c[i].w >= 2
        /\ (w.c[i].n % 100) \div 10 <= 2
        /\ w.c[i + 1].w >= 2
        /\ w.c[i + 1].n \div Pow10(w.c[i + 1].w - 1) <= 5

\* '[0-9]{2,4}[\-/.]{1}[0-9]{2}[\-/.]{1}[0-9]{2,4}'
DATE_MATCHER(w) ==
    \E i \in 1..(Len(w.s) - 1) :
        /\ w.s[i] \in {"-", "/", "."}
        /\ w.s[i + 1] \in {"-", "/", "."}
        /\ w.c[i].w >= 2
        /\ w.c[i + 1].w = 2
        /\ w.c[i + 2].w >= 2

(***************************************************************************)
(* Column.                                                                 *)
(***************************************************************************)
\* Python's None for timeFormat, dateFormat and pattern; a format is the
\* sequence of its directives and literal characters.
NoFormat == <<>>

\* Column.__init__
NewColumn(headerName, stringToNone) ==
    [headerName |-> headerName,
     values |-> <<>>,
     stringToNone |-> <<"none", "null", "">> \o stringToNone,
     dataType |-> NoneType,
     potentialDatePatterns |-> <<>>,
     timeSampleCount |-> 0,
     timeFormat |-> NoFormat,
     dateFormat |-> NoFormat,
     pattern |-> NoFormat,
     rawValueIndex |-> -1,
     conversionFunction |-> NoneType,
     charLength |-> 0]

\* Variant of MatchesSentinel: the comparison without value.lower().
MatchesSentinel_caseSensitive(self, value) ==
    /\ Len(value.words) = 1
    /\ IsWordText(value.words[1])
    /\ \E i \in 1..Len(self.stringToNone) :
           value.words[1].txt = Lower(self.stringToNone[i])

\* value.lower() == pat.lower() for some pat of stringToNone, value stripped.
MatchesSentinel(self, value) ==
    /\ Len(value.words) = 1
    /\ IsWordText(value.words[1])
    /\ \E i \in 1..Len(self.stringToNone) :
           Lower(value.words[1].txt) = Lower(self.stringToNone[i])

\* Column.stripValue: the value it returns and the column it leaves.
stripValue(self, value) ==
    IF value.kind = "str"
    THEN IF MatchesSentinel(self, value)
         THEN [self |-> self, value |-> None]
         ELSE [self |-> [self EXCEPT !.charLength = Max(self.charLength, StrLen(value))],
               value |-> [value EXCEPT !.pad = FALSE]]
    ELSE [self |-> self, value |-> value]

\* Column.isNumber: int(value) does not raise.
isNumber(value) == value.kind = "num" \/ IsIntLiteral(value)

\* Column.isDouble: float(value) % 1 != 0.
isDouble(value) == value.kind = "num" /\ value.frac # 0

\* Column.hasTime
hasTime(value) == \E i \in 1..Len(value.words) : TIME_MATCHER(value.words[i])

\* Column.hasDate
hasDate(value) == \E i \in 1..Len(value.words) : DATE_MATCHER(value.words[i])

\* CONVERSION_FUNCTIONS[dataType]: the table is indexed by the data type, so
\* the function a column holds is named by that type.
CONVERSION_FUNCTIONS(dataType) == dataType

\* Variant of setDataType: the String branch sets the data type only and
\* leaves the conversion function unset.
setDataType_stringUnresolved(self, value) ==
    IF value = None
    THEN self
    ELSE IF isNumber(value)
    THEN LET t == IF isDouble(value) THEN FLOAT ELSE INTEGER
         IN [self EXCEPT !.dataType = t, !.conversionFunction = CONVERSION_FUNCTIONS(t)]
    ELSE IF hasDate(value) /\ hasTime(value)
    THEN [self EXCEPT !.dataType = DATETIME]
    ELSE IF hasDate(value)
    THEN [self EXCEPT !.dataType = DATE]
    ELSE IF hasTime(value)
    THEN [self EXCEPT !.dataType = TIME]
    ELSE [self EXCEPT !.dataType = VARCHAR]

\* Column.setDataType
setDataType(self, value) ==
    IF value = None
    THEN self
    ELSE IF isNumber(value)
    THEN LET t == IF isDouble(value) THEN FLOAT ELSE INTEGER
         IN [self EXCEPT !.dataType = t, !.conversionFunction = CONVERSION_FUNCTIONS(t)]
    ELSE IF hasDate(value) /\ hasTime(value)
    THEN [self EXCEPT !.dataType = DATETIME]
    ELSE IF hasDate(value)
    THEN [self EXCEPT !.dataType = DATE]
    ELSE IF hasTime(value)
    THEN [self EXCEPT !.dataType = TIME]
    ELSE [self EXCEPT !.dataType = VARCHAR,
                      !.conversionFunction = CONVERSION_FUNCTIONS(VARCHAR)]

(***************************************************************************)
(* Separator canonicalisation.                                             *)
(***************************************************************************)
SubWord(w, from, to) == [w EXCEPT !.s = [i \in 1..Len(w.s) |-> IF w.s[i] = from THEN to ELSE w.s[i]]]

SubValue(value, from, to) ==
    [value EXCEPT !.words = [i \in 1..Len(value.words) |-> SubWord(value.words[i], from, to)]]

\* Column.normalizeDateValue: re.sub(r'[/]', '-', value)
normalizeDateValue(value) == SubValue(value, "/", "-")

\* Column.normalizeTimeValue: re.sub(r'[.]', ':', value)
normalizeTimeValue(value) == SubValue(value, ".", ":")

\* Column.normalizeDateTimeValue
normalizeDateTimeValue(value) == normalizeDateValue(normalizeTimeValue(value))

(***************************************************************************)
(* Time pattern.                                                           *)
(***************************************************************************)
\* len(self.normalizeTimeValue(value).split(':'))
TimePartCount(w) == 1 + Cardinality({i \in 1..Len(w.s) : w.s[i] \in {":", "."}})

\* int(timeParts[0]) does not raise: the first part is one digit group.
TimeHourIsInt(w) == ~IsWordText(w) /\ (Len(w.s) = 0 \/ w.s[1] \in {":", "."})

\* Column.setTimePattern
setTimePattern(self, w, hasPM) ==
    LET counted == [self EXCEPT !.timeSampleCount = self.timeSampleCount + 1]
        timeFormatFound == w.c[1].n > 12
        n == TimePartCount(w)
        pat == <<IF timeFormatFound THEN "%H" ELSE "%I", ":", "%M">>
               \o (IF n > 2 THEN <<":", "%S">> ELSE <<>>)
               \o (IF n > 3 THEN <<".", "%f">> ELSE <<>>)
               \o (IF hasPM THEN <<" ", "%p">> ELSE <<>>)
    IN IF ~TimeHourIsInt(w)
       THEN [self |-> counted, err |-> "ValueError"]
       ELSE IF timeFormatFound \/ counted.timeSampleCount = FORCE_FORMAT
       THEN [self |-> [counted EXCEPT !.timeFormat = pat], err |-> "none"]
       ELSE [self |-> counted, err |-> "none"]

(***************************************************************************)
(* Date pattern.  Python lists are objects: a slot of                      *)
(* potentialDatePatterns is either a list of its own (own = TRUE, items)   *)
(* or a reference to the module-level list POTENTIAL_DATE_FORMATS          *)
(* (own = FALSE), whose items are then read from and written to glob.      *)
(* The walk over the date parts carries st = [pdp, glob, err].             *)
(***************************************************************************)
\* ['%Y'], ['%y']: a list literal is a new list object.
NewList(items) == [own |-> TRUE, items |-> items]

\* A second reference to the module-level list (what omitting copy() gives).
AliasOf(list) == [own |-> FALSE, items |-> <<>>]

\* copy(POTENTIAL_DATE_FORMATS): a new list object with the same items.
copy(list) == NewList(list)

Items(slot, glob) == IF slot.own THEN slot.items ELSE glob

\* An element of toRemove: a format token, or (isList) a list object.
Tok(t) == [isList |-> FALSE, tok |-> t]

ListObj == [isList |-> TRUE, tok |-> ""]

RECURSIVE RemoveFirst(_, _)
RemoveFirst(items, t) ==
    IF items = <<>> THEN <<>>
    ELSE IF Head(items) = t THEN Tail(items)
    ELSE <<Head(items)>> \o RemoveFirst(Tail(items), t)

InSeq(items, t) == \E i \in 1..Len(items) : items[i] = t

\* self.potentialDatePatterns[k].remove(rem): ValueError when no item equals
\* rem; a string item never equals a list object.
ListRemove(st, k, rem) ==
    LET items == Items(st.pdp[k], st.glob)
    IN IF rem.isList \/ ~InSeq(items, rem.tok)
       THEN [st EXCEPT !.err = "ValueError"]
       ELSE IF st.pdp[k].own
       THEN [st EXCEPT !.pdp[k].items = RemoveFirst(items, rem.tok)]
       ELSE [st EXCEPT !.glob = RemoveFirst(items, rem.tok)]

\* for nIdx in range(len(pdp)): if nIdx != idx: for rem in toRemove: remove
RECURSIVE RemoveFromOthers(_, _, _, _, _)
RemoveFromOthers(st, idx, toRemove, nIdx, r) ==
    IF st.err # "none" \/ nIdx > Len(st.pdp)
    THEN st
    ELSE IF nIdx = idx \/ r > Len(toRemove)
    THEN RemoveFromOthers(st, idx, toRemove, nIdx + 1, 1)
    ELSE RemoveFromOthers(ListRemove(st, nIdx, toRemove[r]), idx, toRemove, nIdx, r + 1)

YearTokens == <<Tok("%Y"), Tok("%y")>>

\* toRemove = toRemove or [self.potentialDatePatterns[0]]
ToRemoveOrDefault(toRemove) == IF toRemove # <<>> THEN toRemove ELSE <<ListObj>>

\* len(str(part)) == 4
IsFourDigits(part) == part >= 1000 /\ part <= 9999

\* The branch on the part: pin the slot to a year token, or drop '%m'.
NarrowSlot(st, idx, part) ==
    IF IsFourDigits(part)
    THEN [st EXCEPT !.pdp[idx] = NewList(<<"%Y">>)]
    ELSE IF part > 31
    THEN [st EXCEPT !.pdp[idx] = NewList(<<"%y">>)]
    ELSE IF part > 12
    THEN ListRemove(st, idx, Tok("%m"))
    ELSE st

\* toRemove as the branch leaves it.
ToRemoveOf(part) == IF IsFourDigits(part) \/ part > 31 THEN YearTokens ELSE <<>>

\* "if len(self.potentialDatePatterns[idx]) == 1": remove from the others.
PropagateSingleton(s1, idx, part) ==
    IF s1.err # "none"
    THEN s1
    ELSE IF Len(Items(s1.pdp[idx], s1.glob)) = 1
    THEN RemoveFromOthers(s1, idx, ToRemoveOrDefault(ToRemoveOf(part)), 1, 1)
    ELSE s1

\* One pass of "for idx, part in enumerate(dateParts)".
DatePartStep(st, idx, part) ==
    IF idx > Len(st.pdp)
    THEN [st EXCEPT !.err = "IndexError"]
    ELSE PropagateSingleton(NarrowSlot(st, idx, part), idx, part)

RECURSIVE DatePartLoop(_, _, _)
DatePartLoop(st, dateParts, idx) ==
    IF st.err # "none" \/ idx > Len(dateParts)
    THEN st
    ELSE DatePartLoop(DatePartStep(st, idx, dateParts[idx]), dateParts, idx + 1)

\* [int(x) for x in normalizeDateValue(value).split('-')] does not raise:
\* every part is one digit group.
DatePartsAreInts(w) == ~IsWordText(w) /\ \A i \in 1..Len(w.s) : w.s[i] \in {"-", "/"}

DateParts(w) == [i \in 1..Len(w.c) |-> w.c[i].n]

\* pattern += (subPat[0] + '-') for every slot, then pattern[:-1]
RECURSIVE JoinSlots(_, _)
JoinSlots(pdp, glob) ==
    IF pdp = <<>> THEN <<>>
    ELSE <<Items(pdp[1], glob)[1]>>
         \o (IF Len(pdp) > 1 THEN <<"-">> ELSE <<>>)
         \o JoinSlots(Tail(pdp), glob)

\* "if not self.potentialDatePatterns": one copy of the module list per part.
InitialSlots(self, glob, n) ==
    IF self.potentialDatePatterns = <<>>
    THEN [i \in 1..n |-> copy(glob)]
    ELSE self.potentialDatePatterns

\* foundPattern: no slot holds more than one candidate.
FoundPattern(st) == \A i \in 1..Len(st.pdp) : Len(Items(st.pdp[i], st.glob)) <= 1

\* subPat[0] of an empty slot raises IndexError.
HasEmptySlot(st) == \E i \in 1..Len(st.pdp) : Len(Items(st.pdp[i], st.glob)) = 0

\* The end of setDatePattern, st being what the loop over the parts left.
DateFormatOf(self, st) ==
    IF st.err # "none"
    THEN [self |-> [self EXCEPT !.potentialDatePatterns = st.pdp],
          glob |-> st.glob, err |-> st.err]
    ELSE IF ~FoundPattern(st)
    THEN [self |-> [self EXCEPT !.potentialDatePatterns = st.pdp],
          glob |-> st.glob, err |-> "none"]
    ELSE IF HasEmptySlot(st)
    THEN [self |-> [self EXCEPT !.potentialDatePatterns = st.pdp],
          glob |-> st.glob, err |-> "IndexError"]
    ELSE [self |-> [self EXCEPT !.potentialDatePatterns = st.pdp,
                                !.dateFormat = JoinSlots(st.pdp, st.glob)],
          glob |-> st.glob, err |-> "none"]

\* Column.setDatePattern
setDatePattern(self, glob, w) ==
    IF ~DatePartsAreInts(w)
    THEN [self |-> self, glob |-> glob, err |-> "ValueError"]
    ELSE DateFormatOf(self,
             DatePartLoop([pdp |-> InitialSlots(self, glob, Len(w.c)),
                           glob |-> glob, err |-> "none"],
                          DateParts(w), 1))

\* self.hasTime and self.hasDate in setPattern name the bound methods, which
\* are objects and so always true.
BoundMethodIsTrue == TRUE

\* Variant of CommitPattern: a DateTime column commits as soon as either of
\* its two formats is known.
CommitPattern_eitherHalf(s) ==
    IF s.dataType = DATETIME
    THEN IF s.timeFormat # NoFormat \/ s.dateFormat # NoFormat
         THEN [s EXCEPT !.pattern = s.dateFormat \o <<" ">> \o s.timeFormat,
                        !.conversionFunction = CONVERSION_FUNCTIONS(s.dataType)]
         ELSE s
    ELSE IF \/ s.dataType = TIME /\ s.timeFormat # NoFormat
            \/ s.dataType = DATE /\ s.dateFormat # NoFormat
    THEN [s EXCEPT !.pattern = IF s.timeFormat # NoFormat
                               THEN s.timeFormat ELSE s.dateFormat,
                   !.conversionFunction = CONVERSION_FUNCTIONS(s.dataType)]
    ELSE s

\* The end of setPattern: pattern and conversionFunction once the formats
\* the data type needs are known.
CommitPattern(s) ==
    IF s.dataType = DATETIME
    THEN IF s.timeFormat # NoFormat /\ s.dateFormat # NoFormat
         THEN [s EXCEPT !.pattern = s.dateFormat \o <<" ">> \o s.timeFormat,
                        !.conversionFunction = CONVERSION_FUNCTIONS(s.dataType)]
         ELSE s
    ELSE IF \/ s.dataType = TIME /\ s.timeFormat # NoFormat
            \/ s.dataType = DATE /\ s.dateFormat # NoFormat
    THEN [s EXCEPT !.pattern = IF s.timeFormat # NoFormat
                               THEN s.timeFormat ELSE s.dateFormat,
                   !.conversionFunction = CONVERSION_FUNCTIONS(s.dataType)]
    ELSE s

SetPatternCommit(d) ==
    IF d.err # "none"
    THEN d
    ELSE [self |-> CommitPattern(d.self), glob |-> d.glob, err |-> "none"]

\* "if self.hasDate and not self.dateFormat: self.setDatePattern(parts[0])",
\* t being what the time half left.
SetPatternDate(t, glob, parts) ==
    IF t.err # "none"
    THEN [self |-> t.self, glob |-> glob, err |-> t.err]
    ELSE IF BoundMethodIsTrue /\ t.self.dateFormat = NoFormat
    THEN SetPatternCommit(setDatePattern(t.self, glob, parts[1]))
    ELSE SetPatternCommit([self |-> t.self, glob |-> glob, err |-> "none"])

\* "if self.hasTime and not self.timeFormat:
\*      self.setTimePattern(parts[1], len(parts) > 2)"
SetPatternTime(self, parts) ==
    IF ~(BoundMethodIsTrue /\ self.timeFormat = NoFormat)
    THEN [self |-> self, err |-> "none"]
    ELSE IF Len(parts) < 2
    THEN [self |-> self, err |-> "IndexError"]
    ELSE setTimePattern(self, parts[2], Len(parts) > 2)

\* Column.setPattern
setPattern(self, glob, value) ==
    IF value.kind # "str"
    THEN [self |-> self, glob |-> glob, err |-> "AttributeError"]
    ELSE SetPatternDate(SetPatternTime(self, value.words), glob, value.words)

(***************************************************************************)
(* datetime.strptime on the token structure.  A format is matched token by *)
(* token: a directive against one digit group (or AM/PM text), a literal   *)
(* against the same separator, a blank against the blanks between words.   *)
(***************************************************************************)
NumTok(g) == [t |-> "num", x |-> "", n |-> g.n, w |-> g.w]

LitTok(x) == [t |-> "lit", x |-> x, n |-> 0, w |-> 0]

TxtTok(x) == [t |-> "txt", x |-> x, n |-> 0, w |-> 0]

RECURSIVE FlattenGroups(_, _)
FlattenGroups(c, s) ==
    IF Len(c) <= 1 THEN [i \in 1..Len(c) |-> NumTok(c[i])]
    ELSE <<NumTok(c[1]), LitTok(s[1])>> \o FlattenGroups(Tail(c), Tail(s))

FlattenWord(w) == IF IsWordText(w) THEN <<TxtTok(w.txt)>> ELSE FlattenGroups(w.c, w.s)

\* The characters of the string; a run of blanks is one blank token, as the
\* format's blank matches \s+.
RECURSIVE FlattenWords(_, _)
FlattenWords(ws, first) ==
    IF ws = <<>> THEN <<>>
    ELSE IF Head(ws) = T("") THEN FlattenWords(Tail(ws), first)
    ELSE (IF first THEN <<>> ELSE <<LitTok(" ")>>)
         \o FlattenWord(Head(ws)) \o FlattenWords(Tail(ws), FALSE)

IsDirective(p) == p \in {"%d", "%m", "%y", "%Y", "%H", "%I", "%M", "%S", "%f", "%p"}

\* The regular expression of one directive (_strptime.TimeRE).
DirectiveMatches(p, tk) ==
    CASE p = "%d" -> tk.t = "num" /\ tk.w \in 1..2 /\ tk.n \in 1..31
      [] p = "%m" -> tk.t = "num" /\ tk.w \in 1..2 /\ tk.n \in 1..12
      [] p = "%y" -> tk.t = "num" /\ tk.w = 2
      [] p = "%Y" -> tk.t = "num" /\ tk.w = 4 /\ tk.n >= 1
      [] p = "%H" -> tk.t = "num" /\ tk.w \in 1..2 /\ tk.n \in 0..23
      [] p = "%I" -> tk.t = "num" /\ tk.w \in 1..2 /\ tk.n \in 1..12
      [] p = "%M" -> tk.t = "num" /\ tk.w \in 1..2 /\ tk.n \in 0..59
      [] p = "%S" -> tk.t = "num" /\ tk.w \in 1..2 /\ tk.n \in 0..59
      [] p = "%f" -> tk.t = "num" /\ tk.w \in 1..6
      [] p = "%p" -> tk.t = "txt" /\ Lower(tk.x) \in {"am", "pm"}
      [] OTHER -> tk.t = "lit" /\ tk.x = p

\* Two uses of one directive redefine a named group: re.error.
HasDuplicateDirective(pat) ==
    \E i, j \in 1..Len(pat) : i < j /\ IsDirective(pat[i]) /\ pat[i] = pat[j]

IsLeap(y) == (y % 4 = 0 /\ y % 100 # 0) \/ y % 400 = 0

DaysInMonth(m, y) ==
    CASE m \in {4, 6, 9, 11} -> 30
      [] m = 2 -> IF IsLeap(y) THEN 29 ELSE 28
      [] OTHER -> 31

Has(pat, d) == \E i \in 1..Len(pat) : pat[i] = d

At(pat, toks, d) == toks[CHOOSE i \in 1..Len(pat) : pat[i] = d]

\* The fields strptime builds from the matched groups.
StrptimeFields(pat, toks) ==
    LET year == IF Has(pat, "%Y") THEN At(pat, toks, "%Y").n
                ELSE IF Has(pat, "%y")
                THEN (IF At(pat, toks, "%y").n < 69 THEN 2000 ELSE 1900) + At(pat, toks, "%y").n
                ELSE 1900
        ampm == IF Has(pat, "%p") THEN Lower(At(pat, toks, "%p").x) ELSE ""
        i12 == At(pat, toks, "%I").n
        hour == IF Has(pat, "%H") THEN At(pat, toks, "%H").n
                ELSE IF Has(pat, "%I")
                THEN IF ampm = "pm"
                     THEN (IF i12 = 12 THEN 12 ELSE i12 + 12)
                     ELSE (IF i12 = 12 THEN 0 ELSE i12)
                ELSE 0
        frac == At(pat, toks, "%f")
    IN [year |-> year,
        month |-> IF Has(pat, "%m") THEN At(pat, toks, "%m").n ELSE 1,
        day |-> IF Has(pat, "%d") THEN At(pat, toks, "%d").n ELSE 1,
        hour |-> hour,
        minute |-> IF Has(pat, "%M") THEN At(pat, toks, "%M").n ELSE 0,
        second |-> IF Has(pat, "%S") THEN At(pat, toks, "%S").n ELSE 0,
        microsecond |-> IF Has(pat, "%f") THEN frac.n * Pow10(6 - frac.w) ELSE 0]

\* The datetime constructor rejects a day the month does not have.
CheckedFields(f) ==
    IF f.day > DaysInMonth(f.month, f.year)
    THEN [err |-> "ValueError", val |-> None]
    ELSE [err |-> "none", val |-> f]

MatchFormat(pat, toks) ==
    IF HasDuplicateDirective(pat)
    THEN [err |-> "re.error", val |-> None]
    ELSE IF \/ Len(toks) # Len(pat)
            \/ \E i \in 1..Len(pat) : ~DirectiveMatches(pat[i], toks[i])
    THEN [err |-> "ValueError", val |-> None]
    ELSE CheckedFields(StrptimeFields(pat, toks))

\* datetime.strptime(x, pattern)
strptime(value, pat) == MatchFormat(pat, FlattenWords(value.words, TRUE))

\* .date(), .time() or the datetime itself.
TemporalValue(dataType, f) ==
    CASE dataType = DATE ->
           [kind |-> DATE, year |-> f.year, month |-> f.month, day |-> f.day]
      [] dataType = TIME ->
           [kind |-> TIME, hour |-> f.hour, minute |-> f.minute,
            second |-> f.second, microsecond |-> f.microsecond]
      [] OTHER ->
           [kind |-> DATETIME, year |-> f.year, month |-> f.month, day |-> f.day,
            hour |-> f.hour, minute |-> f.minute,
            second |-> f.second, microsecond |-> f.microsecond]

RECURSIVE DigitCount(_)
DigitCount(n) == IF n < 10 THEN 1 ELSE 1 + DigitCount(n \div 10)

\* int(x)
IntOf(value) ==
    IF value.kind = "num"
    THEN [err |-> "none", val |-> Num(value.n, 0, FALSE)]
    ELSE IF IsIntLiteral(value)
    THEN [err |-> "none", val |-> Num(value.words[1].c[1].n, 0, FALSE)]
    ELSE [err |-> "ValueError", val |-> None]

\* float(x)
FloatOf(value) ==
    IF value.kind = "num"
    THEN [err |-> "none", val |-> Num(value.n, value.frac, TRUE)]
    ELSE IF IsIntLiteral(value)
    THEN [err |-> "none", val |-> Num(value.words[1].c[1].n, 0, TRUE)]
    ELSE IF IsFloatLiteral(value)
    THEN [err |-> "none",
          val |-> LET b == value.words[1].c[2]
                  IN Num(value.words[1].c[1].n, b.n \div Pow10(b.w - 1), TRUE)]
    ELSE [err |-> "ValueError", val |-> None]

\* str(x)
StrOf(value) ==
    IF value.kind = "str"
    THEN [err |-> "none", val |-> value]
    ELSE IF value.isFloat
    THEN [err |-> "none",
          val |-> Str(<<W(<<G(value.n, DigitCount(value.n)), G(value.frac, 1)>>, <<".">>)>>)]
    ELSE [err |-> "none", val |-> Str(<<W(<<G(value.n, DigitCount(value.n))>>, <<>>)>>)]

TemporalResult(dataType, r) ==
    IF r.err # "none" THEN r
    ELSE [err |-> "none", val |-> TemporalValue(dataType, r.val)]

\* self.conversionFunction(value) or self.conversionFunction(value, pattern)
Convert(conversionFunction, value, pattern) ==
    CASE conversionFunction = INTEGER -> IntOf(value)
      [] conversionFunction = FLOAT -> FloatOf(value)
      [] conversionFunction = VARCHAR -> StrOf(value)
      [] OTHER -> TemporalResult(conversionFunction, strptime(value, pattern))

(***************************************************************************)
(* Column.processValue and Column.fixUpRawValues.                          *)
(***************************************************************************)
IsTemporal(dataType) == dataType \in {DATETIME, DATE, TIME}

\* Variant of NeedsDataType: the guard "if not self.dataType" dropped, so
\* every concrete value classifies the column again.
NeedsDataType_always(self) == TRUE

\* "if not self.dataType"
NeedsDataType(self) == self.dataType = NoneType

\* "if not self.conversionFunction"
NeedsPattern(self) == self.conversionFunction = NoneType

\* The normalize call processValue picks by data type.
Normalize(dataType, value) ==
    CASE dataType = DATE -> normalizeDateValue(value)
      [] dataType = TIME -> normalizeTimeValue(value)
      [] dataType = DATETIME -> normalizeDateTimeValue(value)
      [] OTHER -> value

\* The except clauses of processValue: a ValueError of the conversion is
\* reported and raised again (ConversionFailure); anything else propagates.
Reraise(e) == IF e = "ValueError" THEN "ConversionFailure" ELSE e

\* Variant of append: an absent value is dropped instead of appended.
append_dropNone(values, value) == IF value = [kind |-> "none"] THEN values ELSE Append(values, value)

\* self.values.append(value)
append(values, value) == Append(values, value)

\* The try blocks: append the converted value, or raise.
ProcessConverted(s, glob, conv) ==
    IF conv.err # "none"
    THEN [self |-> s, glob |-> glob, err |-> Reraise(conv.err)]
    ELSE [self |-> [s EXCEPT !.values = append(s.values, conv.val)],
          glob |-> glob, err |-> "none"]

\* Buffer the normalized value, or convert it.
ProcessNormalized(s, glob, normalized) ==
    IF NeedsPattern(s)
    THEN [self |-> [s EXCEPT !.rawValueIndex = s.rawValueIndex + 1,
                             !.values = append(s.values, normalized)],
          glob |-> glob, err |-> "none"]
    ELSE ProcessConverted(s, glob, Convert(s.conversionFunction, normalized, s.pattern))

\* After setPattern; re.sub on a value that is no string raises TypeError.
ProcessPatterned(p, value) ==
    IF p.err # "none"
    THEN p
    ELSE IF IsTemporal(p.self.dataType) /\ value.kind # "str"
    THEN [self |-> p.self, glob |-> p.glob, err |-> "TypeError"]
    ELSE ProcessNormalized(p.self, p.glob, Normalize(p.self.dataType, value))

\* "if not self.conversionFunction: self.setPattern(value)"
ProcessTyped(typed, glob, value) ==
    IF NeedsPattern(typed)
    THEN ProcessPatterned(setPattern(typed, glob, value), value)
    ELSE ProcessPatterned([self |-> typed, glob |-> glob, err |-> "none"], value)

\* After stripValue: None is appended, a concrete value classified first.
ProcessStripped(sv, glob) ==
    IF sv.value = None
    THEN [self |-> [sv.self EXCEPT !.values = append(sv.self.values, None)],
          glob |-> glob, err |-> "none"]
    ELSE IF NeedsDataType(sv.self)
    THEN ProcessTyped(setDataType(sv.self, sv.value), glob, sv.value)
    ELSE ProcessTyped(sv.self, glob, sv.value)

\* Column.processValue
processValue(self, glob, rawValue) == ProcessStripped(stripValue(self, rawValue), glob)

\* range(self.rawValueIndex), as the 1-based positions of values it visits.
FixUpRange(self) == 1..self.rawValueIndex

\* self.values[i] = self.conversionFunction(self.values[i], ...)
FixUpEntry(self, i) ==
    IF self.values[i].kind # "str" /\ IsTemporal(self.dataType)
    THEN [err |-> "TypeError", val |-> None]
    ELSE Convert(self.conversionFunction, self.values[i], self.pattern)

StoreFixed(r, i, conv) ==
    IF conv.err # "none"
    THEN [r EXCEPT !.err = conv.err]
    ELSE [r EXCEPT !.self.values[i] = conv.val]

\* The loop of fixUpRawValues from position i on.
RECURSIVE FixUpLoop(_, _)
FixUpLoop(r, i) ==
    IF r.err # "none" \/ i \notin FixUpRange(r.self)
    THEN r
    ELSE IF r.self.values[i] = None
    THEN FixUpLoop(r, i + 1)
    ELSE FixUpLoop(StoreFixed(r, i, FixUpEntry(r.self, i)), i + 1)

\* Variant of fixUpRawValues: the unresolved column returns instead of raising.
fixUpRawValues_noRaise(self) ==
    IF self.rawValueIndex = -1 \/ NeedsPattern(self)
    THEN [self |-> self, err |-> "none"]
    ELSE FixUpLoop([self |-> self, err |-> "none"], 1)

\* Column.fixUpRawValues
fixUpRawValues(self) ==
    IF self.rawValueIndex = -1
    THEN [self |-> self, err |-> "none"]
    ELSE IF NeedsPattern(self)
    THEN [self |-> self, err |-> "UnresolvedFormat"]
    ELSE FixUpLoop([self |-> self, err |-> "none"], 1)

(***************************************************************************)
(* Cell values fed to the columns.                                         *)
(***************************************************************************)
DateWord(a, aw, b, bw, c, cw, sep) == W(<<G(a, aw), G(b, bw), G(c, cw)>>, <<sep, sep>>)

TimeWord(h, m) == W(<<G(h, 2), G(m, 2)>>, <<":">>)

\* "15-2023": a day and a year, too short for DATE_MATCHER.
DayYearWord == W(<<G(15, 2), G(2023, 4)>>, <<"-">>)

AbsentSamples ==
    {None, Str(<<T("NULL")>>), Padded(<<T("None")>>), Str(<<T("")>>)}

ScalarSamples ==
    {Str(<<W(<<G(12, 2)>>, <<>>)>>),                      \* "12"
     Str(<<T("abc")>>),                                   \* "abc"
     Str(<<T("Na")>>),                                    \* "Na"
     Str(<<W(<<G(3, 1), G(5, 1)>>, <<".">>)>>),           \* "3.5"
     Num(5, 0, FALSE),                                    \* 5
     Num(3, 7, TRUE)}                                     \* 3.7

DateSamples ==
    {Str(<<DateWord(2023, 4, 4, 2, 15, 2, "-")>>),        \* "2023-04-15"
     Str(<<DateWord(2023, 4, 1, 2, 5, 2, "-")>>),         \* "2023-01-05"
     Str(<<DateWord(3, 2, 4, 2, 5, 2, "-")>>),            \* "03-04-05"
     Str(<<DateWord(3, 2, 25, 2, 5, 2, "-")>>),           \* "03-25-05"
     Str(<<DateWord(3, 2, 4, 2, 5, 2, "/"), W(<<G(10, 2)>>, <<>>)>>)}  \* "03/04/05 10"

TimeSamples ==
    {Str(<<TimeWord(10, 30)>>),                           \* "10:30"
     Str(<<TimeWord(14, 30)>>),                           \* "14:30"
     Str(<<W(<<G(5, 2)>>, <<>>), TimeWord(10, 30)>>),     \* "05 10:30"
     Str(<<W(<<G(5, 2)>>, <<>>), TimeWord(14, 30)>>)}     \* "05 14:30"

DateTimeSamples ==
    {Str(<<DateWord(2023, 4, 4, 2, 15, 2, "-"), TimeWord(14, 30)>>),   \* "2023-04-15 14:30"
     Str(<<DateWord(3, 2, 4, 2, 5, 2, "-"), TimeWord(10, 30)>>),       \* "03-04-05 10:30"
     Str(<<DateWord(15, 2, 13, 2, 2023, 4, "/"), TimeWord(10, 30)>>),  \* "15/13/2023 10:30"
     \* "15-2023 10:30 11-22-33"
     Str(<<DayYearWord, TimeWord(10, 30), DateWord(11, 2, 22, 2, 33, 2, "-")>>),
     \* "15-2023 10:30.15.20"
     Str(<<DayYearWord, W(<<G(10, 2), G(30, 2), G(15, 2), G(20, 2)>>, <<":", ".", ".">>)>>),
     Str(<<DayYearWord, TimeWord(14, 30)>>),                           \* "15-2023 14:30"
     Str(<<DayYearWord, TimeWord(9, 5)>>),                             \* "15-2023 09:05"
     Str(<<DayYearWord, TimeWord(0, 5)>>)}                             \* "15-2023 00:05"

Samples == AbsentSamples \cup ScalarSamples \cup DateSamples \cup TimeSamples \cup DateTimeSamples

\* Caller-supplied stringToNone lists.
ExtraTokens == {<<>>, <<"NA">>}

\* How many cells one column is fed.
MaxCalls == 3

(***************************************************************************)
(* The readers: a Column per source column, processValue for every cell in *)
(* row order, then fixUpRawValues.  An exception leaves the reader, so a   *)
(* column whose call raised gets no further call.                          *)
(*   inputs[c]  the cells column c was fed, in order                       *)
(*   err[c]     the exception column c's last call ended with              *)
(*   done[c]    fixUpRawValues was called on column c                      *)
(***************************************************************************)
InitWith(ids, extras) ==
    /\ \E extra \in extras : cols = [c \in ids |-> NewColumn("header", extra)]
    /\ inputs = [c \in ids |-> <<>>]
    /\ err = [c \in ids |-> "none"]
    /\ done = [c \in ids |-> FALSE]
    /\ POTENTIAL_DATE_FORMATS = INITIAL_DATE_FORMATS

Init == InitWith({1}, ExtraTokens)

ProcessValue(c, v, limit) ==
    /\ err[c] = "none"
    /\ ~done[c]
    /\ Len(inputs[c]) < limit
    /\ LET r == processValue(cols[c], POTENTIAL_DATE_FORMATS, v)
       IN /\ cols' = [cols EXCEPT ![c] = r.self]
          /\ err' = [err EXCEPT ![c] = r.err]
          /\ POTENTIAL_DATE_FORMATS' = r.glob
    /\ inputs' = [inputs EXCEPT ![c] = Append(inputs[c], v)]
    /\ UNCHANGED done

FixUpRawValues(c) ==
    /\ err[c] = "none"
    /\ ~done[c]
    /\ LET r == fixUpRawValues(cols[c])
       IN /\ cols' = [cols EXCEPT ![c] = r.self]
          /\ err' = [err EXCEPT ![c] = r.err]
    /\ done' = [done EXCEPT ![c] = TRUE]
    /\ UNCHANGED <<inputs, POTENTIAL_DATE_FORMATS>>

Feed == \E c \in DOMAIN cols : \E v \in Samples : ProcessValue(c, v, MaxCalls)

Finish == \E c \in DOMAIN cols : FixUpRawValues(c)

Next == Feed \/ Finish

Spec == Init /\ [][Next]_vars

(***************************************************************************)
(* Two columns of one source, their calls interleaved in any order.        *)
(***************************************************************************)
SamplesTwo ==
    {None,
     Str(<<DateWord(3, 2, 4, 2, 5, 2, "-"), TimeWord(10, 30)>>),       \* "03-04-05 10:30"
     Str(<<DateWord(15, 2, 13, 2, 2023, 4, "/"), TimeWord(10, 30)>>),  \* "15/13/2023 10:30"
     Str(<<DayYearWord, TimeWord(10, 30), DateWord(11, 2, 22, 2, 33, 2, "-")>>),
     Str(<<DayYearWord, TimeWord(14, 30)>>)}                           \* "15-2023 14:30"

\* How many cells each of the two columns is fed.
MaxCallsTwo == 2

InitTwo == InitWith({1, 2}, {<<>>})

FeedTwo == \E c \in DOMAIN cols : \E v \in SamplesTwo : ProcessValue(c, v, MaxCallsTwo)

NextTwo == FeedTwo \/ Finish

SpecTwo == InitTwo /\ [][NextTwo]_vars

(***************************************************************************)
(* One column fed a long run of one ambiguous time sample, so that         *)
(* timeSampleCount reaches FORCE_FORMAT.                                   *)
(***************************************************************************)
SamplesForce ==
    {Str(<<W(<<G(5, 2)>>, <<>>), TimeWord(10, 30)>>),     \* "05 10:30"
     Str(<<W(<<G(5, 2)>>, <<>>), TimeWord(14, 30)>>),     \* "05 14:30"
     Str(<<TimeWord(10, 30)>>),                           \* "10:30"
     Num(5, 0, FALSE)}                                    \* 5

\* How many cells the column is fed: past the FORCE_FORMAT-th sample.
MaxCallsForce == 51

FeedForce == \E c \in DOMAIN cols : \E v \in SamplesForce : ProcessValue(c, v, MaxCallsForce)

NextForce == FeedForce \/ Finish

SpecForce == Init /\ [][NextForce]_vars

(***************************************************************************)
(* One column fed cells that carry a date word and a time word, the date   *)
(* words narrowing the slots in every way setDatePattern branches.         *)
(***************************************************************************)
\* A date word of three parts followed by a time word.
DateTimeCell(a, aw, b, bw, c, cw, h, m) ==
    Str(<<DateWord(a, aw, b, bw, c, cw, "-"), TimeWord(h, m)>>)

SamplesNarrow ==
    {None,
     DateTimeCell(3, 2, 4, 2, 5, 2, 10, 30),                           \* "03-04-05 10:30"
     DateTimeCell(3, 2, 4, 2, 5, 2, 14, 30),                           \* "03-04-05 14:30"
     DateTimeCell(3, 2, 4, 2, 2023, 4, 10, 30),                        \* "03-04-2023 10:30"
     DateTimeCell(2024, 4, 4, 2, 2023, 4, 10, 30),                     \* "2024-04-2023 10:30"
     DateTimeCell(45, 2, 4, 2, 2023, 4, 10, 30),                       \* "45-04-2023 10:30"
     DateTimeCell(2023, 4, 4, 2, 15, 2, 14, 30),                       \* "2023-04-15 14:30"
     Str(<<DateWord(15, 2, 13, 2, 2023, 4, "/"), TimeWord(10, 30)>>),  \* "15/13/2023 10:30"
     \* "2023-15 10:30 11-22-33"
     Str(<<W(<<G(2023, 4), G(15, 2)>>, <<"-">>), TimeWord(10, 30),
           DateWord(11, 2, 22, 2, 33, 2, "-")>>),
     \* "15-2023 10:30 11-22-33"
     Str(<<DayYearWord, TimeWord(10, 30), DateWord(11, 2, 22, 2, 33, 2, "-")>>),
     Str(<<DayYearWord, TimeWord(14, 30)>>),                           \* "15-2023 14:30"
     \* "15-2023 14:30:15.20"
     Str(<<DayYearWord, W(<<G(14, 2), G(30, 2), G(15, 2), G(20, 2)>>, <<":", ":", ".">>)>>)}

\* How many cells the column is fed.
MaxCallsNarrow == 3

FeedNarrow == \E c \in DOMAIN cols : \E v \in SamplesNarrow : ProcessValue(c, v, MaxCallsNarrow)

NextNarrow == FeedNarrow \/ Finish

InitNarrow == InitWith({1}, {<<>>})

SpecNarrow == InitNarrow /\ [][NextNarrow]_vars

(***************************************************************************)
(* Vocabulary of the properties.                                           *)
(***************************************************************************)
\* The cell is absent: None, or a string that trimmed and lower-cased is one
\* of the column's sentinel tokens.
AbsentCell(tokens, v) ==
    \/ v = None
    \/ /\ v.kind = "str"
       /\ Len(v.words) = 1
       /\ v.words[1].c = <<>>
       /\ \E i \in 1..Len(tokens) : Lower(v.words[1].txt) = Lower(tokens[i])

SomeConcreteInput(c) ==
    \E i \in 1..Len(inputs[c]) : ~AbsentCell(cols[c].stringToNone, inputs[c][i])

\* The step is a processValue call on column c.
IsProcessStep(c) == inputs'[c] # inputs[c]

\* The cell that call was given.
FedCell(c) == inputs'[c][Len(inputs'[c])]

\* Every processValue call on column c so far returned normally.
AllCallsReturned(c) == err[c] = "none" \/ done[c]

(***************************************************************************)
(* C1  Type stability: dataType is unset exactly as long as only absent    *)
(* values were fed, the first concrete value sets it, and once set it is   *)
(* never changed by any later call.                                        *)
(***************************************************************************)
TypeSetByFirstConcrete ==
    \A c \in DOMAIN cols : (cols[c].dataType = NoneType) <=> ~SomeConcreteInput(c)

TypeNeverChanges ==
    \A c \in DOMAIN cols :
        cols[c].dataType # NoneType => cols'[c].dataType = cols[c].dataType

OrderPreservation ==
    \A c \in DOMAIN cols :
        AllCallsReturned(c) =>
            /\ Len(cols[c].values) = Len(inputs[c])
            /\ \A i \in 1..Len(inputs[c]) :
                   (cols[c].values[i] = None) <=> AbsentCell(cols[c].stringToNone, inputs[c][i])

\* A finished column holding an absent entry between two concrete ones.
OrderPreservationWitness ==
    \E c \in DOMAIN cols :
        /\ done[c]
        /\ err[c] = "none"
        /\ Len(inputs[c]) = 3
        /\ cols[c].values[1] # None
        /\ cols[c].values[2] = None
        /\ cols[c].values[3] # None

(***************************************************************************)
(* C3  Fix-up equivalence: when a temporal column buffered at least one    *)
(* raw value and fixUpRawValues returned normally, every entry of values   *)
(* that is not absent is the conversion of its own cell under the final    *)
(* pattern; no raw string is left.                                         *)
(***************************************************************************)
ConvertedCell(self, v) ==
    Convert(self.conversionFunction, Normalize(self.dataType, [v EXCEPT !.pad = FALSE]),
            self.pattern)

FixUpEquivalence ==
    \A c \in DOMAIN cols :
        (/\ done[c]
         /\ err[c] = "none"
         /\ IsTemporal(cols[c].dataType)
         /\ cols[c].rawValueIndex >= 0) =>
            \A i \in 1..Len(cols[c].values) :
                cols[c].values[i] # None =>
                    /\ cols[c].values[i].kind # "str"
                    /\ ConvertedCell(cols[c], inputs[c][i]).err = "none"
                    /\ cols[c].values[i] = ConvertedCell(cols[c], inputs[c][i]).val

(***************************************************************************)
(* C4  Fatal unresolved column: a temporal column that was fed a concrete  *)
(* value and has no conversion function when fixUpRawValues is called gets *)
(* the UnresolvedFormat error, and no entry of values is converted.        *)
(***************************************************************************)
FatalUnresolved ==
    \A c \in DOMAIN cols :
        (/\ done[c]
         /\ IsTemporal(cols[c].dataType)
         /\ cols[c].conversionFunction = NoneType
         /\ SomeConcreteInput(c)) =>
            /\ err[c] = "UnresolvedFormat"
            /\ \A i \in 1..Len(cols[c].values) : cols[c].values[i].kind \in {"none", "str"}

\* fixUpRawValues raised on a DateTime column that buffered a raw value.
FatalUnresolvedWitness ==
    \E c \in DOMAIN cols :
        /\ done[c]
        /\ err[c] = "UnresolvedFormat"
        /\ cols[c].dataType = DATETIME
        /\ cols[c].rawValueIndex >= 0

(***************************************************************************)
(* C5  Sentinel handling: a processValue call given None or a sentinel     *)
(* string (any letter case, surrounding blanks allowed) returns normally,  *)
(* appends one absent entry and changes no other field of the column.      *)
(***************************************************************************)
SentinelStep ==
    \A c \in DOMAIN cols :
        (IsProcessStep(c) /\ AbsentCell(cols[c].stringToNone, FedCell(c))) =>
            /\ err'[c] = "none"
            /\ cols'[c] = [cols[c] EXCEPT !.values = Append(cols[c].values, None)]

SentinelHandling == [][SentinelStep]_vars

\* A typed column was fed an upper-case sentinel and, with a caller-supplied
\* token, a mixed-case one.
SentinelHandlingWitness ==
    \E c \in DOMAIN cols :
        /\ Len(inputs[c]) = 3
        /\ ~AbsentCell(cols[c].stringToNone, inputs[c][1])
        /\ inputs[c][2] = Str(<<T("NULL")>>)
        /\ inputs[c][3] = Str(<<T("Na")>>)
        /\ Len(cols[c].values) = 3
        /\ cols[c].values[2] = None
        /\ cols[c].values[3] = None
        /\ cols[c].charLength > 0

(***************************************************************************)
(* C6  Forced time format: a Time column fed only plain HH:MM samples with *)
(* hour <= 12 stays unresolved through sample 49 and holds the pattern     *)
(* %I:%M from sample 50 on, every call returning normally.                 *)
(***************************************************************************)
PlainTimeCell(v) ==
    /\ v.kind = "str"
    /\ Len(v.words) = 1
    /\ Len(v.words[1].c) = 2
    /\ v.words[1].s = <<":">>
    /\ v.words[1].c[1].n <= 12

ForcedTimeFormat ==
    \A c \in DOMAIN cols :
        (/\ inputs[c] # <<>>
         /\ \A i \in 1..Len(inputs[c]) : PlainTimeCell(inputs[c][i])) =>
            /\ cols[c].dataType = TIME
            /\ err[c] = "none"
            /\ Len(inputs[c]) < FORCE_FORMAT => cols[c].pattern = NoFormat
            /\ Len(inputs[c]) >= FORCE_FORMAT => cols[c].pattern = <<"%I", ":", "%M">>

(***************************************************************************)
(* C7  Date-slot convergence: fed "2023-04-15" then "2023-01-05", both     *)
(* calls return, the first slot is pinned to %Y by the first sample and    *)
(* the resolved pattern is %Y-%m-%d.                                       *)
(***************************************************************************)
Cell_2023_04_15 == Str(<<DateWord(2023, 4, 4, 2, 15, 2, "-")>>)

Cell_2023_01_05 == Str(<<DateWord(2023, 4, 1, 2, 5, 2, "-")>>)

DateSlotConvergence ==
    \A c \in DOMAIN cols :
        /\ inputs[c] = <<Cell_2023_04_15>> =>
               /\ err[c] = "none"
               /\ cols[c].potentialDatePatterns # <<>>
               /\ Items(cols[c].potentialDatePatterns[1], POTENTIAL_DATE_FORMATS) = <<"%Y">>
        /\ inputs[c] = <<Cell_2023_04_15, Cell_2023_01_05>> =>
               /\ err[c] = "none"
               /\ cols[c].pattern = <<"%Y", "-", "%m", "-", "%d">>

(***************************************************************************)
(* C8  Ambiguous-then-resolved order: fed "03-04-05" the column is         *)
(* unresolved; fed "03-25-05" next, the slots resolve to month, day, year  *)
(* and the pattern is %m-%d-%y.                                            *)
(***************************************************************************)
Cell_03_04_05 == Str(<<DateWord(3, 2, 4, 2, 5, 2, "-")>>)

Cell_03_25_05 == Str(<<DateWord(3, 2, 25, 2, 5, 2, "-")>>)

AmbiguousThenResolved ==
    \A c \in DOMAIN cols :
        /\ inputs[c] = <<Cell_03_04_05>> =>
               /\ err[c] = "none"
               /\ cols[c].pattern = NoFormat
        /\ inputs[c] = <<Cell_03_04_05, Cell_03_25_05>> =>
               /\ err[c] = "none"
               /\ cols[c].pattern = <<"%m", "-", "%d", "-", "%y">>

(***************************************************************************)
(* C9  ConversionFailure: once the column holds a conversion function, a   *)
(* processValue call given a concrete value that does not parse under the  *)
(* committed type and pattern raises ConversionFailure, appends nothing    *)
(* and leaves dataType and pattern as they were.                           *)
(***************************************************************************)
\* The cell is a value of the committed type: an integer for Integer, a
\* number for Float, anything for String, a string the pattern parses for
\* the temporal types.
ParsesUnder(self, v) ==
    CASE self.conversionFunction = INTEGER -> (v.kind = "num" /\ v.frac = 0) \/ IsIntLiteral(v)
      [] self.conversionFunction = FLOAT -> v.kind = "num" \/ IsFloatLiteral(v)
      [] self.conversionFunction = VARCHAR -> TRUE
      [] OTHER -> v.kind = "str" /\ ConvertedCell(self, v).err = "none"

ConversionFailureStep ==
    \A c \in DOMAIN cols :
        (/\ IsProcessStep(c)
         /\ cols[c].conversionFunction # NoneType
         /\ ~AbsentCell(cols[c].stringToNone, FedCell(c))
         /\ ~ParsesUnder(cols[c], FedCell(c))) =>
            /\ err'[c] = "ConversionFailure"
            /\ cols'[c].values = cols[c].values
            /\ cols'[c].dataType = cols[c].dataType
            /\ cols'[c].pattern = cols[c].pattern

ConversionFailureRaised == [][ConversionFailureStep]_vars

(***************************************************************************)
(* C10  Column independence: with the calls of two columns interleaved in  *)
(* any order, each column is in the state its own calls alone produce, and *)
(* a call on one column changes nothing the other column reads.            *)
(***************************************************************************)
\* The column with every slot list read through to its items.
View(self, glob) ==
    [self EXCEPT !.potentialDatePatterns =
        [i \in 1..Len(self.potentialDatePatterns) |-> Items(self.potentialDatePatterns[i], glob)]]

RECURSIVE ReplayCalls(_, _, _)
ReplayCalls(r, cells, i) ==
    IF r.err # "none" \/ i > Len(cells)
    THEN r
    ELSE ReplayCalls(processValue(r.self, r.glob, cells[i]), cells, i + 1)

\* Column c's own calls on a column of its own, nothing else running.
Alone(c) ==
    LET fresh == NewColumn(cols[c].headerName,
                           SubSeq(cols[c].stringToNone, 4, Len(cols[c].stringToNone)))
        fed == ReplayCalls([self |-> fresh, glob |-> INITIAL_DATE_FORMATS, err |-> "none"],
                           inputs[c], 1)
        fixed == fixUpRawValues(fed.self)
    IN IF done[c]
       THEN [self |-> fixed.self, glob |-> fed.glob, err |-> fixed.err]
       ELSE fed

SameAsAlone ==
    \A c \in DOMAIN cols :
        /\ View(cols[c], POTENTIAL_DATE_FORMATS) = View(Alone(c).self, Alone(c).glob)
        /\ err[c] = Alone(c).err

OthersUntouched ==
    \A c \in DOMAIN cols :
        (inputs'[c] = inputs[c] /\ done'[c] = done[c]) =>
            /\ View(cols'[c], POTENTIAL_DATE_FORMATS') = View(cols[c], POTENTIAL_DATE_FORMATS)
            /\ err'[c] = err[c]

ColumnIndependence == []SameAsAlone /\ [][OthersUntouched]_vars

\* Both columns finished, each having narrowed date slots of its own: one
\* resolved its date format, the other did not.
ColumnIndependenceWitness ==
    /\ DOMAIN cols = {1, 2}
    /\ done[1] /\ done[2]
    /\ cols[1].dateFormat # NoFormat
    /\ cols[2].potentialDatePatterns # <<>>
    /\ cols[2].dateFormat = NoFormat
    /\ cols[1].pattern # NoFormat

(***************************************************************************)
(* C11  Pending-buffer invariant: before fixUpRawValues, the pending raw   *)
(* count (rawValueIndex + 1) is the number of unconverted raw entries of   *)
(* values, those entries are the first ones of values, and every entry     *)
(* past the count is absent or converted.                                  *)
(***************************************************************************)
PendingRawCount(self) == self.rawValueIndex + 1

\* Entry i of values is a buffered raw string: only a temporal column
\* buffers, and its converted entries are no strings.
RawEntry(self, i) == IsTemporal(self.dataType) /\ self.values[i].kind = "str"

PendingBufferInvariant ==
    \A c \in DOMAIN cols :
        ~done[c] =>
            /\ PendingRawCount(cols[c]) =
                   Cardinality({i \in 1..Len(cols[c].values) : RawEntry(cols[c], i)})
            /\ \A i \in 1..Len(cols[c].values) :
                   RawEntry(cols[c], i) => i <= PendingRawCount(cols[c])
            /\ \A i \in 1..Len(cols[c].values) :
                   i > PendingRawCount(cols[c]) => ~RawEntry(cols[c], i)

(***************************************************************************)
(* C12  Monotone narrowing: a processValue step, returning or raising,     *)
(* leaves every slot's candidate set a subset of what it was before the    *)
(* step (the full set for a slot not yet created), and once every slot     *)
(* holds exactly one candidate no step changes the sets.                   *)
(***************************************************************************)
SeqToSet(items) == {items[k] : k \in 1..Len(items)}

\* The candidate set of slot i of the column.
Candidates(self, glob, i) == SeqToSet(Items(self.potentialDatePatterns[i], glob))

\* The same before the slots exist: every candidate is still possible.
CandidatesOrAll(self, glob, i) ==
    IF self.potentialDatePatterns = <<>>
    THEN SeqToSet(glob)
    ELSE Candidates(self, glob, i)

AllSlotsSingle(self, glob) ==
    /\ self.potentialDatePatterns # <<>>
    /\ \A i \in 1..Len(self.potentialDatePatterns) : Cardinality(Candidates(self, glob, i)) = 1

NarrowingStep ==
    \A c \in DOMAIN cols :
        /\ \A i \in 1..Len(cols'[c].potentialDatePatterns) :
               Candidates(cols'[c], POTENTIAL_DATE_FORMATS', i)
                   \subseteq CandidatesOrAll(cols[c], POTENTIAL_DATE_FORMATS, i)
        /\ AllSlotsSingle(cols[c], POTENTIAL_DATE_FORMATS) =>
               View(cols'[c], POTENTIAL_DATE_FORMATS').potentialDatePatterns
                   = View(cols[c], POTENTIAL_DATE_FORMATS).potentialDatePatterns

MonotoneNarrowing == [][NarrowingStep]_vars

(***************************************************************************)
(* C13  Year pinning: when a processValue step feeds the date narrowing a  *)
(* date word with a 4-digit part, or a part greater than 31, at position   *)
(* i, then after the step slot i holds exactly the year token of that part *)
(* (%Y for 4 digits, %y otherwise) and no other slot holds %Y or %y.       *)
(***************************************************************************)
YearSized(part) == IsFourDigits(part) \/ part > 31

YearTokenOf(part) == IF IsFourDigits(part) THEN "%Y" ELSE "%y"

\* The step is a processValue call that hands the first word of the cell
\* to setDatePattern: the column is a temporal one without date format and
\* conversion function, and the cell has a time word for the time half.
FeedsDateNarrowing(c) ==
    /\ IsProcessStep(c)
    /\ FedCell(c).kind = "str"
    /\ ~AbsentCell(cols[c].stringToNone, FedCell(c))
    /\ IsTemporal(cols'[c].dataType)
    /\ cols[c].conversionFunction = NoneType
    /\ cols[c].dateFormat = NoFormat
    /\ Len(FedCell(c).words) >= 2
    /\ TimeHourIsInt(FedCell(c).words[2])
    /\ DatePartsAreInts(FedCell(c).words[1])

\* The parts of the date word of the fed cell.
FedDateParts(c) == DateParts(FedCell(c).words[1])

YearPinningStep ==
    \A c \in DOMAIN cols :
        FeedsDateNarrowing(c) =>
            \A i \in 1..Len(FedDateParts(c)) :
                YearSized(FedDateParts(c)[i]) =>
                    /\ i <= Len(cols'[c].potentialDatePatterns)
                    /\ Candidates(cols'[c], POTENTIAL_DATE_FORMATS', i)
                           = {YearTokenOf(FedDateParts(c)[i])}
                    /\ \A j \in 1..Len(cols'[c].potentialDatePatterns) :
                           j # i => Candidates(cols'[c], POTENTIAL_DATE_FORMATS', j)
                                        \cap {"%Y", "%y"} = {}

YearPinning == [][YearPinningStep]_vars

(***************************************************************************)
(* C14  Singleton propagation: when a processValue step leaves a slot with *)
(* exactly one candidate that it did not hold alone before, the date       *)
(* narrowing of that step raises nothing and no other slot holds that      *)
(* candidate afterwards; and a resolved date format of three slots names   *)
(* one day, one month and one year.                                        *)
(***************************************************************************)
\* The step narrowed slot i to one candidate.
NarrowedToOne(c, i) ==
    /\ i <= Len(cols'[c].potentialDatePatterns)
    /\ Cardinality(Candidates(cols'[c], POTENTIAL_DATE_FORMATS', i)) = 1
    /\ Candidates(cols'[c], POTENTIAL_DATE_FORMATS', i)
           # CandidatesOrAll(cols[c], POTENTIAL_DATE_FORMATS, i)

SingletonStep ==
    \A c \in DOMAIN cols :
        FeedsDateNarrowing(c) =>
            \A i \in 1..Len(FedDateParts(c)) :
                NarrowedToOne(c, i) =>
                    /\ err'[c] \notin {"ValueError", "IndexError"}
                    /\ \A j \in 1..Len(cols'[c].potentialDatePatterns) :
                           j # i => Candidates(cols'[c], POTENTIAL_DATE_FORMATS', j)
                                        \cap Candidates(cols'[c], POTENTIAL_DATE_FORMATS', i) = {}

RoleOf(token) ==
    CASE token = "%d" -> "day"
      [] token = "%m" -> "month"
      [] OTHER -> "year"

DistinctRoles ==
    \A c \in DOMAIN cols :
        (cols[c].dateFormat # NoFormat /\ Len(cols[c].potentialDatePatterns) = 3) =>
            {RoleOf(t) : t \in UNION {Candidates(cols[c], POTENTIAL_DATE_FORMATS, i) : i \in 1..3}}
                = {"day", "month", "year"}

SingletonPropagation == []DistinctRoles /\ [][SingletonStep]_vars

(***************************************************************************)
(* C15  Date pattern found iff converged: in every state the date format   *)
(* is set exactly when every slot holds exactly one candidate, and it is   *)
(* then the slots' candidates in order, joined by '-'.                     *)
(***************************************************************************)
DatePatternIffConverged ==
    \A c \in DOMAIN cols :
        /\ (cols[c].dateFormat # NoFormat) <=> AllSlotsSingle(cols[c], POTENTIAL_DATE_FORMATS)
        /\ cols[c].dateFormat # NoFormat =>
               cols[c].dateFormat = JoinSlots(cols[c].potentialDatePatterns, POTENTIAL_DATE_FORMATS)

(***************************************************************************)
(* C16  24-hour detection: a processValue step on a Time or DateTime       *)
(* column without time format, fed a cell whose time word has an hour      *)
(* above 12, sets the time format in that step and the format starts with  *)
(* %H; a time format starting with %I is set only by the step that brings  *)
(* timeSampleCount to FORCE_FORMAT, no cell fed so far having an hour      *)
(* above 12.                                                               *)
(***************************************************************************)
HasTimeWord(v) == v.kind = "str" /\ hasTime(v)

\* The word of the cell that TIME_MATCHER finds.
TimeWordOf(v) == v.words[CHOOSE i \in 1..Len(v.words) : TIME_MATCHER(v.words[i])]

HourAbove12(v) == HasTimeWord(v) /\ TimeWordOf(v).c[1].n > 12

HourDetectionStep ==
    \A c \in DOMAIN cols :
        (/\ IsProcessStep(c)
         /\ cols'[c].dataType \in {TIME, DATETIME}
         /\ cols[c].timeFormat = NoFormat
         /\ HourAbove12(FedCell(c))) =>
            /\ cols'[c].timeFormat # NoFormat
            /\ cols'[c].timeFormat[1] = "%H"

TwelveHourOnlyForced ==
    \A c \in DOMAIN cols :
        (/\ cols[c].timeFormat = NoFormat
         /\ cols'[c].timeFormat # NoFormat
         /\ cols'[c].timeFormat[1] = "%I") =>
            /\ cols'[c].timeSampleCount = FORCE_FORMAT
            /\ \A i \in 1..Len(inputs'[c]) : ~HourAbove12(inputs'[c][i])

HourDetection == [][HourDetectionStep /\ TwelveHourOnlyForced]_vars

(***************************************************************************)
(* C17  Non-temporal columns never buffer: a column whose data type is     *)
(* Integer, Float or String holds its conversion function from the call    *)
(* that set the type, rawValueIndex stays -1, every entry of values is     *)
(* absent or the conversion of its own cell, and fixUpRawValues returns    *)
(* normally leaving the column as it was; the same for a column that was   *)
(* fed absent values only.                                                 *)
(***************************************************************************)
\* The cell as stripValue hands it on.
Stripped(v) == IF v.kind = "str" THEN [v EXCEPT !.pad = FALSE] ELSE v

NonTemporal(self) == self.dataType \in {INTEGER, FLOAT, VARCHAR}

NonTemporalResolved ==
    \A c \in DOMAIN cols :
        /\ NonTemporal(cols[c]) =>
               /\ cols[c].conversionFunction = CONVERSION_FUNCTIONS(cols[c].dataType)
               /\ cols[c].rawValueIndex = -1
               /\ \A i \in 1..Len(cols[c].values) :
                      \/ cols[c].values[i] = None
                      \/ cols[c].values[i]
                             = Convert(cols[c].dataType, Stripped(inputs[c][i]), NoFormat).val
        /\ cols[c].dataType = NoneType =>
               /\ cols[c].rawValueIndex = -1
               /\ \A i \in 1..Len(cols[c].values) : cols[c].values[i] = None

FixUpIsNoOp ==
    \A c \in DOMAIN cols :
        (/\ done'[c] # done[c]
         /\ (NonTemporal(cols[c]) \/ cols[c].dataType = NoneType)) =>
            /\ err'[c] = "none"
            /\ cols'[c] = cols[c]

NonTemporalNeverBuffers == []NonTemporalResolved /\ [][FixUpIsNoOp]_vars

\* A finished Integer column that was fed 5, an absent value and "12".
NonTemporalNeverBuffersWitness ==
    \E c \in DOMAIN cols :
        /\ done[c]
        /\ err[c] = "none"
        /\ cols[c].dataType = INTEGER
        /\ cols[c].rawValueIndex = -1
        /\ cols[c].values = <<Num(5, 0, FALSE), None, Num(12, 0, FALSE)>>

(***************************************************************************)
(* C18  Resolved is absorbing: once the column holds a conversion          *)
(* function, no processValue or fixUpRawValues step changes pattern,       *)
(* dateFormat, timeFormat, the slots, timeSampleCount or the conversion    *)
(* function; the conversion function changes only from unset to set, in a  *)
(* processValue step.                                                      *)
(***************************************************************************)
\* What the resolution of the column consists of.
Resolution(self, glob) ==
    [conversionFunction |-> self.conversionFunction,
     pattern |-> self.pattern,
     dateFormat |-> self.dateFormat,
     timeFormat |-> self.timeFormat,
     slots |-> View(self, glob).potentialDatePatterns,
     timeSampleCount |-> self.timeSampleCount]

ResolvedStays ==
    \A c \in DOMAIN cols :
        /\ cols[c].conversionFunction # NoneType =>
               Resolution(cols'[c], POTENTIAL_DATE_FORMATS')
                   = Resolution(cols[c], POTENTIAL_DATE_FORMATS)
        /\ cols'[c].conversionFunction # cols[c].conversionFunction =>
               /\ cols[c].conversionFunction = NoneType
               /\ IsProcessStep(c)

ResolvedIsAbsorbing == [][ResolvedStays]_vars

\* A DateTime column resolved by its second cell, then fed a third cell
\* that was converted, then finished.
ResolvedIsAbsorbingWitness ==
    \E c \in DOMAIN cols :
        /\ done[c]
        /\ err[c] = "none"
        /\ cols[c].dataType = DATETIME
        /\ cols[c].rawValueIndex = 0
        /\ Len(cols[c].values) = 3
        /\ cols[c].values[2].kind = DATETIME
        /\ cols[c].values[3].kind = DATETIME

(***************************************************************************)
(* C19  DateTime needs both halves: a DateTime column holds a conversion   *)
(* function exactly when dateFormat and timeFormat are both set, and its   *)
(* pattern is then dateFormat, one blank, timeFormat.  While exactly one   *)
(* of the two is set, a processValue step given a concrete value leaves    *)
(* the set half as it was (format, slots, timeSampleCount), counts the     *)
(* sample for an unset time half, and, when it returns with the column     *)
(* still unresolved, has buffered the canonicalized raw value; a step that *)
(* raises appends nothing.                                                 *)
(***************************************************************************)
BothHalves ==
    \A c \in DOMAIN cols :
        cols[c].dataType = DATETIME =>
            /\ (cols[c].conversionFunction # NoneType)
                   <=> (cols[c].dateFormat # NoFormat /\ cols[c].timeFormat # NoFormat)
            /\ (cols[c].pattern # NoFormat) <=> (cols[c].conversionFunction # NoneType)
            /\ cols[c].conversionFunction # NoneType =>
                   /\ cols[c].conversionFunction = CONVERSION_FUNCTIONS(DATETIME)
                   /\ cols[c].pattern = cols[c].dateFormat \o <<" ">> \o cols[c].timeFormat

\* Exactly one of the two formats of the column is set.
OneHalf(self) == (self.dateFormat # NoFormat) # (self.timeFormat # NoFormat)

OneHalfStep ==
    \A c \in DOMAIN cols :
        (/\ IsProcessStep(c)
         /\ cols[c].dataType = DATETIME
         /\ OneHalf(cols[c])
         /\ ~AbsentCell(cols[c].stringToNone, FedCell(c))) =>
            /\ cols[c].dateFormat # NoFormat =>
                   /\ cols'[c].dateFormat = cols[c].dateFormat
                   /\ View(cols'[c], POTENTIAL_DATE_FORMATS').potentialDatePatterns
                          = View(cols[c], POTENTIAL_DATE_FORMATS).potentialDatePatterns
                   /\ err'[c] = "none" => cols'[c].timeSampleCount = cols[c].timeSampleCount + 1
            /\ cols[c].timeFormat # NoFormat =>
                   /\ cols'[c].timeFormat = cols[c].timeFormat
                   /\ cols'[c].timeSampleCount = cols[c].timeSampleCount
            /\ (err'[c] = "none" /\ cols'[c].conversionFunction = NoneType) =>
                   /\ cols'[c].rawValueIndex = cols[c].rawValueIndex + 1
                   /\ cols'[c].values
                          = Append(cols[c].values, Normalize(DATETIME, Stripped(FedCell(c))))
            /\ err'[c] # "none" =>
                   /\ cols'[c].rawValueIndex = cols[c].rawValueIndex
                   /\ cols'[c].values = cols[c].values

DateTimeNeedsBothHalves == []BothHalves /\ [][OneHalfStep]_vars

\* A DateTime column that knows its time format but not its date format and
\* has buffered two raw values.
DateTimeNeedsBothHalvesWitness ==
    \E c \in DOMAIN cols :
        /\ err[c] = "none"
        /\ cols[c].dataType = DATETIME
        /\ cols[c].timeFormat # NoFormat
        /\ cols[c].dateFormat = NoFormat
        /\ cols[c].rawValueIndex = 1
        /\ cols[c].timeSampleCount = 1

(***************************************************************************)
(* C20  Resolving sample parses: the processValue step in which a temporal *)
(* column gets its conversion function does not raise ConversionFailure,   *)
(* and the cell it was given, canonicalized, converts under the pattern    *)
(* the step committed.                                                     *)
(***************************************************************************)
\* The step resolved the pattern of a temporal column.
ResolvesPattern(c) ==
    /\ IsProcessStep(c)
    /\ IsTemporal(cols'[c].dataType)
    /\ cols[c].conversionFunction = NoneType
    /\ cols'[c].conversionFunction # NoneType

ResolvingStep ==
    \A c \in DOMAIN cols :
        ResolvesPattern(c) =>
            /\ err'[c] # "ConversionFailure"
            /\ ConvertedCell(cols'[c], FedCell(c)).err = "none"

ResolvingSampleParses == [][ResolvingStep]_vars

====
